---- MODULE Spec2Model ----
(***************************************************************************)
(* Model of LogAnalysisAgent (log_analysis_agent.py): classification of    *)
(* log lines, detection of exception headers, extraction of exception      *)
(* blocks and the driver loop of analyze_log_file.                         *)
(*                                                                         *)
(* Text is modelled as TLA+ strings, character by character; the regular   *)
(* expressions of the source are written out as matchers over string       *)
(* positions (1-based).  An index of the Python code (0-based) keeps its   *)
(* Python value in the state; line k of a Python list is element k+1 of    *)
(* the TLA+ sequence.  An Optional value is a sequence of length at most   *)
(* one: <<>> is None.                                                      *)
(***************************************************************************)
EXTENDS Integers, Sequences, FiniteSets, TLC

(***************************************************************************)
(* Character classes of Python's re module (ASCII part).                   *)
(***************************************************************************)
Digit == {"0", "1", "2", "3", "4", "5", "6", "7", "8", "9"}

Lower == {"a", "b", "c", "d", "e", "f", "g", "h", "i", "j", "k", "l", "m",
          "n", "o", "p", "q", "r", "s", "t", "u", "v", "w", "x", "y", "z"}

Upper == {"A", "B", "C", "D", "E", "F", "G", "H", "I", "J", "K", "L", "M",
          "N", "O", "P", "Q", "R", "S", "T", "U", "V", "W", "X", "Y", "Z"}

\* \w
Word == Lower \cup Upper \cup Digit \cup {"_"}

\* \s, and the characters str.strip() removes
Space == {" ", "\t", "\n", "\r"}

(***************************************************************************)
(* String helpers.  A scan over the positions of a string is written as a  *)
(* function of the position, applied to the start position: the start is   *)
(* then evaluated once, as the Python code evaluates it.                   *)
(***************************************************************************)
\* s[k-1] in Python, "" when k is outside the string
Ch(s, k) == IF k >= 1 /\ k <= Len(s) THEN SubSeq(s, k, k) ELSE ""

\* s[k-1:] in Python
From(s, k) == IF k <= Len(s) THEN SubSeq(s, k, Len(s)) ELSE ""

\* s.startswith(lit, k-1)
LitAt(s, k, lit) ==
    /\ k >= 1
    /\ k + Len(lit) - 1 <= Len(s)
    /\ SubSeq(s, k, k + Len(lit) - 1) = lit

\* the first position >= k whose character is not in S (Len(s)+1 if none):
\* where a greedy run of the class S that starts at k ends
SpanIn(s, k, S) ==
    LET span[j \in Nat] ==
            IF j <= Len(s) /\ Ch(s, j) \in S THEN span[j + 1] ELSE j
    IN  span[k]

\* the first position >= k whose character is in S (Len(s)+1 if none):
\* where a greedy run of the negated class [^S] that starts at k ends
SpanOut(s, k, S) ==
    LET span[j \in Nat] ==
            IF j <= Len(s) /\ Ch(s, j) \notin S THEN span[j + 1] ELSE j
    IN  span[k]

\* the last position <= k whose character is not in S (0 if none)
SpanBack(s, k, S) ==
    LET span[j \in Nat] ==
            IF j >= 1 /\ Ch(s, j) \in S THEN span[j - 1] ELSE j
    IN  span[k]

\* str.strip()
Strip(s) ==
    LET a == SpanIn(s, 1, Space)
    IN  IF a > Len(s) THEN "" ELSE SubSeq(s, a, SpanBack(s, Len(s), Space))

\* \d{n} at position k
DigitsAt(s, k, n) == \A j \in k..(k + n - 1) : Ch(s, j) \in Digit

\* `lit in s`
Contains(s, lit) == \E k \in 1..(Len(s) - Len(lit) + 1) : LitAt(s, k, lit)

\* where the run of digits that starts at k ends: SpanIn(s, k, Digit) for a
\* run of any length
DigitsEnd(s, k) ==
    LET end[a \in Nat] ==
            IF \A j \in a..Len(s) : Ch(s, j) \in Digit
            THEN IF a > Len(s) THEN a ELSE Len(s) + 1
            ELSE CHOOSE j \in a..Len(s) :
                     /\ Ch(s, j) \notin Digit
                     /\ \A m \in a..(j - 1) : Ch(s, m) \in Digit
    IN  end[k]

\* s * n
RECURSIVE Rep(_, _)
Rep(s, n) ==
    IF n = 0 THEN ""
    ELSE IF n % 2 = 1 THEN s \o Rep(s, n - 1)
    ELSE LET half == Rep(s, n \div 2) IN half \o half

\* the position of the last "." of s, 0 if there is none
LastDot(s, k) ==
    LET last[j \in Nat] ==
            IF j = 0 THEN 0
            ELSE IF Ch(s, j) = "." THEN j
            ELSE last[j - 1]
    IN  last[k]

\* int(s) for a string of decimal digits
DigitVal(c) ==
    CASE c = "0" -> 0 [] c = "1" -> 1 [] c = "2" -> 2 [] c = "3" -> 3
      [] c = "4" -> 4 [] c = "5" -> 5 [] c = "6" -> 6 [] c = "7" -> 7
      [] c = "8" -> 8 [] c = "9" -> 9

RECURSIVE ToInt(_)
ToInt(s) ==
    IF Len(s) = 0 THEN 0
    ELSE 10 * ToInt(SubSeq(s, 1, Len(s) - 1)) + DigitVal(Ch(s, Len(s)))

\* sys.get_int_max_str_digits(): int(s) raises ValueError for a string of
\* more digits (Python 3.11 and later, which setup.py requires)
int_max_str_digits == 4300

int_raises(s) == Len(s) > int_max_str_digits

(***************************************************************************)
(* log_patterns: the three line formats.  Each matcher is re.match (the    *)
(* pattern anchored at position 1) and returns <<>> when the pattern does  *)
(* not match, else <<groups>>.                                             *)
(***************************************************************************)
\* (\d{4}-\d{2}-\d{2}\s+\d{2}:\d{2}:\d{2}) with an optional \.\d{3}:
\* the position after the timestamp, 0 when it does not match
TimestampEnd(s, millis) ==
    IF /\ DigitsAt(s, 1, 4) /\ Ch(s, 5) = "-"
       /\ DigitsAt(s, 6, 2) /\ Ch(s, 8) = "-"
       /\ DigitsAt(s, 9, 2) /\ Ch(s, 11) \in Space
    THEN LET t == SpanIn(s, 11, Space)
         IN  IF /\ DigitsAt(s, t, 2) /\ Ch(s, t + 2) = ":"
                /\ DigitsAt(s, t + 3, 2) /\ Ch(s, t + 5) = ":"
                /\ DigitsAt(s, t + 6, 2)
                /\ millis => (Ch(s, t + 8) = "." /\ DigitsAt(s, t + 9, 3))
             THEN IF millis THEN t + 12 ELSE t + 8
             ELSE 0
    ELSE 0

\* TS.mmm \s+ (\w+) \s+ \d+ \s+ --- \s+ \[([^\]]+)\] \s+ ([^:]+) \s*: \s* (.*)
spring_boot(s) ==
    LET e1 == TimestampEnd(s, TRUE)
        a  == SpanIn(s, e1, Space)        \* level starts
        b  == SpanIn(s, a, Word)          \* level ends
        c  == SpanIn(s, b, Space)         \* pid starts
        d  == SpanIn(s, c, Digit)         \* pid ends
        e  == SpanIn(s, d, Space)         \* --- starts
        f  == SpanIn(s, e + 3, Space)     \* [ is here
        g  == SpanOut(s, f + 1, {"]"})    \* ] is here
        w  == SpanIn(s, g + 1, Space)     \* after the blanks behind ]
        h  == SpanOut(s, g + 1, {":"})    \* the first colon behind ]
        m  == SpanIn(s, h + 1, Space)     \* message starts
    IN  IF /\ e1 # 0
           /\ a > e1 /\ b > a /\ c > b /\ d > c /\ e > d
           /\ LitAt(s, e, "---") /\ f > e + 3
           /\ Ch(s, f) = "[" /\ g > f + 1 /\ g <= Len(s)
           /\ w > g + 1 /\ h <= Len(s) /\ h >= g + 3
        THEN << [timestamp |-> SubSeq(s, 1, e1 - 1),
                 level     |-> SubSeq(s, a, b - 1),
                 thread    |-> SubSeq(s, f + 1, g - 1),
                 logger    |-> IF w < h THEN SubSeq(s, w, h - 1)
                                        ELSE SubSeq(s, h - 1, h - 1),
                 message   |-> From(s, m)] >>
        ELSE << >>

\* TS \s+ (\w+) \s+ (.*)
alternative(s) ==
    LET e1 == TimestampEnd(s, FALSE)
        a  == SpanIn(s, e1, Space)
        b  == SpanIn(s, a, Word)
        c  == SpanIn(s, b, Space)
    IN  IF e1 # 0 /\ a > e1 /\ b > a /\ c > b
        THEN << [timestamp |-> SubSeq(s, 1, e1 - 1),
                 level     |-> SubSeq(s, a, b - 1),
                 message   |-> From(s, c)] >>
        ELSE << >>

\* TS \s+ (.*)
simple(s) ==
    LET e1 == TimestampEnd(s, FALSE)
        a  == SpanIn(s, e1, Space)
    IN  IF e1 # 0 /\ a > e1
        THEN << [timestamp |-> SubSeq(s, 1, e1 - 1),
                 message   |-> From(s, a)] >>
        ELSE << >>

(***************************************************************************)
(* parse_log_line: <<>> is None.  A key the Python dict does not have is   *)
(* "" here (thread, logger) or FALSE (is_continuation, which the code      *)
(* reads with .get(..., False)).                                           *)
(***************************************************************************)
\* parse_log_line after its first statement: line is the stripped text
parse_stripped(line) ==
    LET sb   == spring_boot(line)
        alt  == alternative(line)
        sim  == simple(line)
    IN  IF line = "" THEN << >>
        ELSE IF sb # << >> THEN
            << [timestamp |-> sb[1].timestamp, level |-> sb[1].level,
                thread |-> sb[1].thread, logger |-> sb[1].logger,
                message |-> sb[1].message, raw_line |-> line,
                is_continuation |-> FALSE] >>
        ELSE IF alt # << >> THEN
            << [timestamp |-> alt[1].timestamp, level |-> alt[1].level,
                thread |-> "", logger |-> "",
                message |-> alt[1].message, raw_line |-> line,
                is_continuation |-> FALSE] >>
        ELSE IF sim # << >> THEN
            << [timestamp |-> sim[1].timestamp, level |-> "INFO",
                thread |-> "", logger |-> "",
                message |-> sim[1].message, raw_line |-> line,
                is_continuation |-> FALSE] >>
        ELSE
            << [timestamp |-> "", level |-> "",
                thread |-> "", logger |-> "",
                message |-> line, raw_line |-> line,
                is_continuation |-> TRUE] >>

\* parse_log_line without "line = line.strip()"
parse_log_line_unstripped(raw) == parse_stripped(raw)

\* parse_log_line without "if not line: return None": a blank line is a
\* continuation line with an empty message
parse_log_line_keeps_blank(raw) ==
    IF Strip(raw) = ""
    THEN << [timestamp |-> "", level |-> "", thread |-> "", logger |-> "",
             message |-> "", raw_line |-> "", is_continuation |-> TRUE] >>
    ELSE parse_stripped(Strip(raw))

\* line = line.strip() is evaluated once, then the patterns are tried
parse_log_line(raw) ==
    LET parsed[line \in STRING] == parse_stripped(line)
    IN  parsed[Strip(raw)]

(***************************************************************************)
(* is_exception_line.  Each definition below is re.search of one entry of  *)
(* the list exception_patterns of the method.                              *)
(***************************************************************************)
\* \w+<lit>  (lit is a literal such as Exception: whose first character
\* is a word character): lit occurs with a word character before it
WordThenLit(s, lit) ==
    \E k \in 2..Len(s) : LitAt(s, k, lit) /\ Ch(s, k - 1) \in Word

\* Caused by:\s+\w+
CausedByIdent(s) ==
    \E k \in 1..Len(s) :
        /\ LitAt(s, k, "Caused by:")
        /\ Ch(s, k + 10) \in Space
        /\ Ch(s, SpanIn(s, k + 10, Space)) \in Word

\* <prefix>\w+Exception  (prefix is a literal package prefix such as
\* java.lang.): the word that follows the prefix holds Exception after at
\* least one other character
PackageException(s, prefix) ==
    \E k \in 1..Len(s) :
        /\ LitAt(s, k, prefix)
        /\ LET a == k + Len(prefix)
               b == SpanIn(s, a, Word)
           IN  \E q \in (a + 1)..(b - 9) : LitAt(s, q, "Exception")

\* any(re.search(pattern, message) for pattern in exception_patterns)
MatchesExceptionPattern(message) ==
    TRUE \in {WordThenLit(message, "Exception:"),
              WordThenLit(message, "Error:"),
              CausedByIdent(message),
              Contains(message, "Exception in thread"),
              PackageException(message, "java.lang."),
              PackageException(message, "java.io."),
              PackageException(message, "java.sql."),
              PackageException(message, "org.springframework.")}

\* IsTraceLine without the strip()
IsTraceLineUnstripped(message) ==
    LitAt(message, 1, "at ") \/ LitAt(message, 1, "...")

\* the first statement of is_exception_line: stack trace lines are not
\* new exceptions
IsTraceLine(message) ==
    LitAt(Strip(message), 1, "at ") \/ LitAt(Strip(message), 1, "...")

is_exception_line(message) ==
    IF IsTraceLine(message) THEN FALSE ELSE MatchesExceptionPattern(message)

(***************************************************************************)
(* exception_patterns of __init__.                                         *)
(***************************************************************************)
ChainChar == Word \cup {"."}

\* \w+(?:\.\w+)*Exception followed by a colon, starting exactly at p: the
\* position of the colon, 0 when it does not match there.  The group cannot
\* hold a colon, so it is the whole run of word characters and dots at p.
ChainEnd(s, p) ==
    LET e == SpanIn(s, p, ChainChar)
    IN  IF /\ Ch(s, p) \in Word
           /\ Ch(s, e) = ":"
           /\ e - 10 >= p
           /\ LitAt(s, e - 9, "Exception")
           /\ Ch(s, e - 10) \in Word
           /\ \A j \in p..(e - 2) : ~LitAt(s, j, "..")
        THEN e
        ELSE 0

\* \s+at\s+ at position k
AtSeparator(s, k) ==
    /\ Ch(s, k) \in Space
    /\ LET a == SpanIn(s, k, Space)
       IN  LitAt(s, a, "at") /\ Ch(s, a + 2) \in Space

\* LazyEnd for a greedy group (.*): it ends at the last \s+at\s+
GreedyEnd(s, k) ==
    LET end[j \in Nat] ==
            IF j < k THEN Len(s) + 1
            ELSE IF AtSeparator(s, j) THEN j
            ELSE end[j - 1]
    IN  end[Len(s)]

\* (.*?)(?:\s+at\s+|$) from position k: where the lazy group ends
LazyEnd(s, k) ==
    LET end[j \in Nat] ==
            IF j > Len(s) \/ AtSeparator(s, j) THEN j ELSE end[j + 1]
    IN  end[k]

\* the groups of a match whose group 1 starts at p and whose colon is at e
TypeGroups(s, p, e) ==
    LET m == SpanIn(s, e + 1, Space)
    IN  [type |-> SubSeq(s, p, e - 1),
         text |-> SubSeq(s, m, LazyEnd(s, m) - 1)]

\* re.search tries the start positions from left to right: the first
\* position >= p at which the class-and-colon part matches, 0 if none
FirstChain(s, p) ==
    LET first[j \in Nat] ==
            IF j > Len(s) THEN 0
            ELSE IF ChainEnd(s, j) # 0 THEN j
            ELSE first[j + 1]
    IN  first[p]

\* exception_line.search(s): <<>> when there is no match
exception_line(s) ==
    LET groups[p \in Nat] ==
            IF p = 0 THEN << >> ELSE << TypeGroups(s, p, ChainEnd(s, p)) >>
    IN  groups[FirstChain(s, 1)]

\* Caused by:\s+ and the class-and-colon part, starting exactly at k
CausedByChainAt(s, k) ==
    /\ LitAt(s, k, "Caused by:")
    /\ Ch(s, k + 10) \in Space
    /\ ChainEnd(s, SpanIn(s, k + 10, Space)) # 0

FirstCausedBy(s, k) ==
    LET first[j \in Nat] ==
            IF j > Len(s) THEN 0
            ELSE IF CausedByChainAt(s, j) THEN j
            ELSE first[j + 1]
    IN  first[k]

\* caused_by.search(s): <<>> when there is no match
caused_by(s) ==
    LET groups[p \in Nat] == << TypeGroups(s, p, ChainEnd(s, p)) >>
        found[k \in Nat] ==
            IF k = 0 THEN << >> ELSE groups[SpanIn(s, k + 10, Space)]
    IN  found[FirstCausedBy(s, 1)]

\* \s+at\s+([^(]+)\(([^:]+):(\d+)\) starting exactly at p: <<>> or the groups
FrameAt(s, p) ==
    LET a  == SpanIn(s, p, Space)             \* at is here
        b  == SpanIn(s, a + 2, Space)         \* after the blanks behind at
        g1 == IF Ch(s, b) = "(" THEN b - 1 ELSE b
        o  == SpanOut(s, g1, {"("})            \* ( is here
        c  == SpanOut(s, o + 1, {":"})         \* : is here
        d  == DigitsEnd(s, c + 1)              \* ) is here
    IN  IF /\ Ch(s, p) \in Space
           /\ LitAt(s, a, "at")
           /\ b > a + 2
           /\ g1 > a + 2
           /\ o > g1 /\ o <= Len(s)
           /\ c > o + 1 /\ c <= Len(s)
           /\ d > c + 1 /\ Ch(s, d) = ")"
        THEN << [method_full |-> SubSeq(s, g1, o - 1),
                 file_name   |-> SubSeq(s, o + 1, c - 1),
                 line        |-> SubSeq(s, c + 1, d - 1)] >>
        ELSE << >>

\* stack_trace.match(s)
stack_trace_match(s) == FrameAt(s, 1)

\* the first position >= p at which stack_trace matches, 0 if none
FirstFrame(s, p) ==
    LET first[j \in Nat] ==
            IF j > Len(s) THEN 0
            ELSE IF FrameAt(s, j) # << >> THEN j
            ELSE first[j + 1]
    IN  first[p]

\* stack_trace.search(s)
stack_trace_search(s) ==
    LET found[p \in Nat] == IF p = 0 THEN << >> ELSE FrameAt(s, p)
    IN  found[FirstFrame(s, 1)]

\* more_lines.match(s): \s+\.\.\.\s+(\d+)\s+more
more_lines_match(s) ==
    LET a == SpanIn(s, 1, Space)
        b == SpanIn(s, a + 3, Space)
        c == SpanIn(s, b, Digit)
        d == SpanIn(s, c, Space)
    IN  /\ a > 1
        /\ LitAt(s, a, "...")
        /\ b > a + 3
        /\ c > b
        /\ d > c
        /\ LitAt(s, d, "more")

(***************************************************************************)
(* extract_exception_details, the parts that are pure functions.           *)
(***************************************************************************)
\* the 5 of "context_start = max(0, start_index - 5)"
ContextLines == 5

Max(a, b) == IF a >= b THEN a ELSE b

\* context_of with the header line taken in: range(context_start,
\* start_index + 1)
context_with_header(lines, start_index) ==
    LET context_start == Max(0, start_index - ContextLines)
    IN  [k \in 1..(start_index + 1 - context_start) |->
            lines[context_start + k].raw_line]

\* surrounding context: raw_line of lines[context_start .. start_index-1]
context_of(lines, start_index) ==
    LET context_start == Max(0, start_index - ContextLines)
    IN  [k \in 1..(start_index - context_start) |->
            lines[context_start + k].raw_line]

\* type_and_message with the package cut off the type
type_and_message_simple(message) ==
    LET el == exception_line(message)
        cb == caused_by(message)
        m  == IF el # << >> THEN el ELSE cb
    IN  IF m = << >>
        THEN [exception_type |-> "Unknown", exception_message |-> message]
        ELSE [exception_type |->
                  From(m[1].type, LastDot(m[1].type, Len(m[1].type)) + 1),
              exception_message |->
                  IF m[1].text # "" THEN m[1].text ELSE message]

\* type_and_message with exception_message initialised to "" instead of the
\* header's message
type_and_message_blank(message) ==
    LET el == exception_line(message)
        cb == caused_by(message)
        m  == IF el # << >> THEN el ELSE cb
    IN  IF m = << >>
        THEN [exception_type |-> "Unknown", exception_message |-> ""]
        ELSE [exception_type |-> m[1].type,
              exception_message |->
                  IF m[1].text # "" THEN m[1].text ELSE ""]

\* exception type and message: the first of exception_line, caused_by that
\* matches the header's message decides; "Unknown" and the message if none
type_and_message(message) ==
    LET el == exception_line(message)
        cb == caused_by(message)
        m  == IF el # << >> THEN el ELSE cb
    IN  IF m = << >>
        THEN [exception_type |-> "Unknown", exception_message |-> message]
        ELSE [exception_type |-> m[1].type,
              exception_message |->
                  IF m[1].text # "" THEN m[1].text ELSE message]

\* the if / elif chain of the while loop: TRUE when a branch appends
\* lines[current_index] to stack_trace, FALSE when the else branch breaks
absorbs(line) ==
    IF stack_trace_match(line.message) # << >> THEN TRUE
    ELSE IF more_lines_match(line.message) THEN TRUE
    ELSE IF LitAt(Strip(line.message), 1, "at ") THEN TRUE
    ELSE IF Contains(line.message, "Caused by:") THEN TRUE
    ELSE IF line.is_continuation /\ Strip(line.message) # "" THEN TRUE
    ELSE FALSE

\* file_path = "", line_number = method_name = class_name = None
unset_location ==
    [file_path |-> "", line_number |-> << >>,
     method_name |-> << >>, class_name |-> << >>]

\* the fields taken from the groups of a stack_trace match: the qualifier is
\* split at its last "."
frame_location(groups) ==
    LET method_full == groups.method_full
        dot == LastDot(method_full, Len(method_full))
    IN  [file_path   |-> groups.file_name,
         line_number |-> << ToInt(groups.line) >>,
         method_name |-> << From(method_full, dot + 1) >>,
         class_name  |-> IF dot # 0
                         THEN << SubSeq(method_full, 1, dot - 1) >>
                         ELSE << >>]

\* head_location that takes the first entry of the trace in which the frame
\* pattern is found, wherever it stands
RECURSIVE head_location_any(_)
head_location_any(trace) ==
    IF trace = << >> THEN unset_location
    ELSE LET stack_match == stack_trace_search(trace[1])
         IN  IF stack_match = << >> THEN head_location_any(Tail(trace))
             ELSE frame_location(stack_match[1])

\* int(stack_match.group(3)) raises: extract_exception_details ends with
\* a ValueError
extraction_raises(trace) ==
    /\ trace # << >>
    /\ stack_trace_search(trace[1]) # << >>
    /\ int_raises(stack_trace_search(trace[1])[1].line)

\* file path, line number, method and class from the first stack trace line
head_location(trace) ==
    IF trace = << >> THEN unset_location
    ELSE LET stack_match == stack_trace_search(trace[1])
         IN  IF stack_match = << >> THEN unset_location
             ELSE frame_location(stack_match[1])

(***************************************************************************)
(* Inputs: the log files the model reads.                                  *)
(***************************************************************************)
MaxLines == 3

MaxLongLines == 7

HeaderLine ==
    "2024-01-01 00:00:00.000 ERROR 1 --- [main] X : java.lang.NullPointerException: boom"

FrameLine == "\tat a.B.c(B.java:10)"

CauseLine == "Caused by: java.sql.SQLException: no db"

MoreLine == "\t... 3 more"

PlainLine == "2024-01-01 00:00:01 INFO Starting Application on localhost"

ThreadLine == "2024-01-01 00:00:02 ERROR Exception in thread main"

StampedAtLine == "2024-01-01 00:00:03 INFO at the office FooException: x"

StampedMoreLine == "2024-01-01 00:00:04 INFO ... 3 more"

BlankLine == "  "

Pool == {HeaderLine, FrameLine, CauseLine, MoreLine, PlainLine, ThreadLine,
         StampedAtLine, StampedMoreLine, BlankLine}

LongPool == {PlainLine, ThreadLine}

SeqsUpTo(S, n) == UNION {[1..k -> S] : k \in 0..n}

\* a continuation line with a frame whose line number int() refuses
HugeLine ==
    "see at a.B.c(B.java:" \o Rep("9", int_max_str_digits + 1) \o ")"

HugeFiles ==
    {f \o <<HugeLine>> \o g :
        f \in {<<HeaderLine>>, <<HeaderLine, CauseLine>>,
               <<ThreadLine, CauseLine>>},
        g \in {<< >>, <<PlainLine>>, <<HeaderLine>>}}

Files == SeqsUpTo(Pool, MaxLines) \cup SeqsUpTo(LongPool, MaxLongLines)
             \cup HugeFiles

\* messages given to is_exception_line directly: lead, body, tail
Leads == {"", "at ", "  at ", "... 3 more ", "...", "\t... 12 more ", "atlas "}

Bodies == {"FooException: x",
           "Caused by: X",
           "Caused by: java.sql.SQLException",
           "java.lang.NullPointerException: Cannot invoke",
           "java.lang.IllegalStateException",
           "java.sql.SQLException",
           "org.springframework.BeanCreationException",
           "org.springframework.dao.DataAccessResourceFailureException",
           "Exception in thread main",
           "OutOfMemoryError: heap",
           "Starting Application on localhost"}

Tails == {"", " at a.B.c(B.java:10)"}

Messages == {l \o b \o t : l \in Leads, b \in Bodies, t \in Tails}

\* lines given to parse_log_line directly: pad, stamp, middle, body, pad
Pads == {"", "  "}

Stamps == {"", "2024-01-01 00:00:00", "2024-01-01 00:00:00.123",
           "2024-01-01  00:00:00", "24-01-01 00:00:00"}

Middles == {"", " ", " INFO ", "  ERROR 1 --- [main] c.L : "}

LineBodies == {"", "Started", "Starting app now", "[main] hello world",
               "at a.B.c(B.java:10)", "java.lang.NullPointerException: boom"}

Lines == {a \o t \o m \o b \o z :
             a \in Pads, t \in Stamps, m \in Middles, b \in LineBodies,
             z \in Pads}

\* the files of repeated calls
MaxRepeatLines == 2

RepeatFiles == SeqsUpTo({HeaderLine, FrameLine}, MaxRepeatLines)

\* stack traces given to the head-location step directly: their entries are
\* trimmed messages of lines the absorption loop takes
MaxTrace == 3

TraceEntries == {"at com.example.Foo.bar(Foo.java:42)",
                 "at main(Foo.java:1)",
                 "at a.B.c(B.java:10)",
                 "Caused by: java.sql.SQLException: no db",
                 "... 3 more",
                 "Caused by: java.io.IOException: x at com.example.Foo.bar(Foo.java:42)",
                 "see at main(Foo.java:1)"}

Traces == SeqsUpTo(TraceEntries, MaxTrace)

(***************************************************************************)
(* State of one call of analyze_log_file.                                  *)
(***************************************************************************)
VARIABLES
    file_path,            \* the argument of analyze_log_file
    file_exists,          \* os.path.exists(file_path)
    raw_lines,            \* the lines of the file
    pc,                   \* where the call is: "start", "parse", "scan",
                          \* "extract", "done", or "error" (it has raised)
    raised,               \* the exception the call has raised, <<>> if none
    parsed_count,         \* lines of raw_lines the parse loop has taken
    parsed_lines,
    exceptions,
    i,
    headers,              \* history: the index i of each record's header
    skips,                \* the indexes i that "Error extracting exception
                          \* at line {i}" was printed for
    current_index,        \* locals of extract_exception_details
    stack_trace,
    surrounding_context,
    exception_type,
    exception_message,
    probe,                \* the argument of a direct call of one method
    verdict,              \* and its result, <<>> before the call
    earlier,              \* history: an earlier call of analyze_log_file on
                          \* the same agent (<<>> if none is remembered),
                          \* its input and what it gave
    node,                 \* where SpringBootLogAnalyzer.analyze_log_file is:
                          \* "none" (it is not called), "entry", the node
                          \* of the graph that runs next, "END", "returned"
    state,                \* the AgentState of the workflow, <<>> if none
    result,               \* the dict the call has returned, <<>> before
    nodes_run,            \* history: the nodes that have been entered
    reports               \* the report files that have been written

scan_vars == <<file_path, file_exists, raw_lines, pc, raised, parsed_count,
               parsed_lines, exceptions, i, headers, skips>>

extract_vars == <<current_index, stack_trace, surrounding_context,
                  exception_type, exception_message>>

probe_vars == <<probe, verdict>>

workflow_vars == <<node, state, result, nodes_run, reports>>

caller_vars == <<earlier, workflow_vars>>

vars == <<scan_vars, extract_vars, probe_vars, caller_vars>>

NoExtraction ==
    /\ current_index = 0
    /\ stack_trace = << >>
    /\ surrounding_context = << >>
    /\ exception_type = ""
    /\ exception_message = ""

\* SpringBootLogAnalyzer.analyze_log_file is not called
NoWorkflow ==
    /\ node = "none"
    /\ state = << >>
    /\ result = << >>
    /\ nodes_run = << >>
    /\ reports = {}

Init ==
    /\ file_exists \in BOOLEAN
    /\ file_path = (IF file_exists THEN "app.log" ELSE "nonexistent_file.log")
    /\ raw_lines \in (IF file_exists THEN Files ELSE {<< >>})
    /\ pc = "start"
    /\ raised = << >>
    /\ parsed_count = 0
    /\ parsed_lines = << >>
    /\ exceptions = << >>
    /\ i = 0
    /\ headers = << >>
    /\ skips = << >>
    /\ NoExtraction
    /\ probe = ""
    /\ verdict = << >>
    /\ earlier = << >>
    /\ NoWorkflow

\* OpenFile with an empty file treated like a missing one
OpenFileEmptyIsMissing ==
    /\ pc = "start"
    /\ IF file_exists /\ raw_lines # << >>
       THEN /\ pc' = "parse"
            /\ UNCHANGED raised
       ELSE /\ pc' = "error"
            /\ raised' = << [type    |-> "FileNotFoundError",
                             message |-> "Log file not found: " \o file_path] >>
    /\ parsed_lines' = << >>
    /\ parsed_count' = 0
    /\ UNCHANGED <<file_path, file_exists, raw_lines, exceptions, i, headers,
                   skips, extract_vars, probe_vars, caller_vars>>

\* analyze_log_file up to "parsed_lines = []": a missing file raises
OpenFile ==
    /\ pc = "start"
    /\ IF file_exists
       THEN /\ pc' = "parse"
            /\ UNCHANGED raised
       ELSE /\ pc' = "error"
            /\ raised' = << [type    |-> "FileNotFoundError",
                             message |-> "Log file not found: " \o file_path] >>
    /\ parsed_lines' = << >>
    /\ parsed_count' = 0
    /\ UNCHANGED <<file_path, file_exists, raw_lines, exceptions, i, headers,
                   skips, extract_vars, probe_vars, caller_vars>>

\* one iteration of "for line in raw_lines"
ParseLine ==
    /\ pc = "parse"
    /\ parsed_count < Len(raw_lines)
    /\ parsed_lines' = parsed_lines \o parse_log_line(raw_lines[parsed_count + 1])
    /\ parsed_count' = parsed_count + 1
    /\ UNCHANGED <<file_path, file_exists, raw_lines, pc, raised, exceptions,
                   i, headers, skips, extract_vars, probe_vars, caller_vars>>

\* ParseDone without "exceptions = []": the list is kept between calls
ParseDoneKeepsRecords ==
    /\ pc = "parse"
    /\ parsed_count = Len(raw_lines)
    /\ pc' = "scan"
    /\ i' = 0
    /\ UNCHANGED <<file_path, file_exists, raw_lines, raised, parsed_count,
                   parsed_lines, exceptions, headers, skips, extract_vars,
                   probe_vars, caller_vars>>

\* the for loop is over: exceptions = [], i = 0
ParseDone ==
    /\ pc = "parse"
    /\ parsed_count = Len(raw_lines)
    /\ pc' = "scan"
    /\ exceptions' = << >>
    /\ headers' = << >>
    /\ i' = 0
    /\ UNCHANGED <<file_path, file_exists, raw_lines, raised, parsed_count,
                   parsed_lines, skips, extract_vars, probe_vars,
                   caller_vars>>

\* one iteration of the while loop on a line that is no exception line
SkipLine ==
    /\ pc = "scan"
    /\ i < Len(parsed_lines)
    /\ ~is_exception_line(parsed_lines[i + 1].message)
    /\ i' = i + 1
    /\ UNCHANGED <<file_path, file_exists, raw_lines, pc, raised,
                   parsed_count, parsed_lines, exceptions, headers, skips,
                   extract_vars, probe_vars, caller_vars>>

\* BeginExtract without the driver's "if self.is_exception_line(...)"
BeginExtractAnyLine ==
    /\ pc = "scan"
    /\ i < Len(parsed_lines)
    /\ pc' = "extract"
    /\ surrounding_context' = context_of(parsed_lines, i)
    /\ LET tm == type_and_message(parsed_lines[i + 1].message)
       IN  /\ exception_type' = tm.exception_type
           /\ exception_message' = tm.exception_message
    /\ stack_trace' = << >>
    /\ current_index' = i + 1
    /\ UNCHANGED <<file_path, file_exists, raw_lines, raised, parsed_count,
                   parsed_lines, exceptions, i, headers, skips, probe_vars, caller_vars>>

\* an exception line: extract_exception_details is entered and runs up to
\* its while loop
BeginExtract ==
    /\ pc = "scan"
    /\ i < Len(parsed_lines)
    /\ is_exception_line(parsed_lines[i + 1].message)
    /\ pc' = "extract"
    /\ surrounding_context' = context_of(parsed_lines, i)
    /\ LET tm == type_and_message(parsed_lines[i + 1].message)
       IN  /\ exception_type' = tm.exception_type
           /\ exception_message' = tm.exception_message
    /\ stack_trace' = << >>
    /\ current_index' = i + 1
    /\ UNCHANGED <<file_path, file_exists, raw_lines, raised, parsed_count,
                   parsed_lines, exceptions, i, headers, skips, probe_vars, caller_vars>>

\* stack_trace.append(message.strip()) at the head of the list instead
prepend_trace(trace, message) == <<Strip(message)>> \o trace

\* stack_trace.append(message.strip())
append_trace(trace, message) == Append(trace, Strip(message))

\* one iteration of the while loop of extract_exception_details that
\* appends the line
AbsorbLine ==
    /\ pc = "extract"
    /\ current_index < Len(parsed_lines)
    /\ absorbs(parsed_lines[current_index + 1])
    /\ stack_trace' =
           append_trace(stack_trace, parsed_lines[current_index + 1].message)
    /\ current_index' = current_index + 1
    /\ UNCHANGED <<scan_vars, surrounding_context, exception_type,
                   exception_message, probe_vars, caller_vars>>

\* exception_info with an empty timestamp and level taken from the line
\* before the header
exception_info_inherits(exception_line_, etype, emessage, trace, context) ==
    LET loc == head_location(trace)
        before == IF context = << >> THEN << >>
                  ELSE parse_log_line(context[Len(context)])
        inherits == exception_line_.timestamp = "" /\ before # << >>
    IN  [timestamp           |-> IF inherits THEN before[1].timestamp
                                 ELSE exception_line_.timestamp,
         log_level           |-> IF inherits THEN before[1].level
                                 ELSE exception_line_.level,
         exception_type      |-> etype,
         exception_message   |-> emessage,
         stack_trace         |-> trace,
         surrounding_context |-> context,
         file_path           |-> loc.file_path,
         line_number         |-> loc.line_number,
         method_name         |-> loc.method_name,
         class_name          |-> loc.class_name]

\* the ExceptionInfo that extract_exception_details returns
exception_info(exception_line_, etype, emessage, trace, context) ==
    LET loc == head_location(trace)
    IN  [timestamp           |-> exception_line_.timestamp,
         log_level           |-> exception_line_.level,
         exception_type      |-> etype,
         exception_message   |-> emessage,
         stack_trace         |-> trace,
         surrounding_context |-> context,
         file_path           |-> loc.file_path,
         line_number         |-> loc.line_number,
         method_name         |-> loc.method_name,
         class_name          |-> loc.class_name]

\* extract_exception_details has returned: its locals are gone
LeaveExtract ==
    /\ current_index' = 0
    /\ stack_trace' = << >>
    /\ surrounding_context' = << >>
    /\ exception_type' = ""
    /\ exception_message' = ""

\* BlockEnded with the loop also left once the trace holds an entry
BlockEndedAfterFirstEntry ==
    \/ current_index < Len(parsed_lines)
           => ~absorbs(parsed_lines[current_index + 1])
    \/ Len(stack_trace) >= 1

\* the while loop has ended
BlockEnded ==
    current_index < Len(parsed_lines)
        => ~absorbs(parsed_lines[current_index + 1])

\* TryExtract with exceptions.insert(0, exception_info)
TryExtractPrepend ==
    IF extraction_raises(stack_trace)
    THEN /\ skips' = Append(skips, i)
         /\ UNCHANGED <<exceptions, headers>>
    ELSE /\ exceptions' = <<exception_info(parsed_lines[i + 1],
                exception_type, exception_message, stack_trace,
                surrounding_context)>> \o exceptions
         /\ headers' = <<i>> \o headers
         /\ UNCHANGED skips

\* the try statement of the driver after extract_exception_details has run
\* its loop: the record is built and appended, or, when building it raises,
\* the except clause prints and nothing is appended
TryExtract ==
    IF extraction_raises(stack_trace)
    THEN /\ skips' = Append(skips, i)
         /\ UNCHANGED <<exceptions, headers>>
    ELSE /\ exceptions' = Append(exceptions,
                exception_info(parsed_lines[i + 1], exception_type,
                               exception_message, stack_trace,
                               surrounding_context))
         /\ headers' = Append(headers, i)
         /\ UNCHANGED skips

\* EndExtract with the driver's "i += 1" skipped
EndExtractNoAdvance ==
    /\ pc = "extract"
    /\ BlockEnded
    /\ TryExtract
    /\ i' = i
    /\ pc' = "scan"
    /\ LeaveExtract
    /\ UNCHANGED <<file_path, file_exists, raw_lines, raised, parsed_count,
                   parsed_lines, probe_vars, caller_vars>>

\* EndExtract with the driver resuming behind the block it has absorbed
EndExtractSkipBlock ==
    /\ pc = "extract"
    /\ BlockEnded
    /\ TryExtract
    /\ i' = current_index
    /\ pc' = "scan"
    /\ LeaveExtract
    /\ UNCHANGED <<file_path, file_exists, raw_lines, raised, parsed_count,
                   parsed_lines, probe_vars, caller_vars>>

\* the while loop ends (break, or no line is left): the try statement is
\* completed and the driver goes on with i + 1
EndExtract ==
    /\ pc = "extract"
    /\ BlockEnded
    /\ TryExtract
    /\ i' = i + 1
    /\ pc' = "scan"
    /\ LeaveExtract
    /\ UNCHANGED <<file_path, file_exists, raw_lines, raised, parsed_count,
                   parsed_lines, probe_vars, caller_vars>>

\* "while i < len(parsed_lines)" is false: return exceptions
Finish ==
    /\ pc = "scan"
    /\ i >= Len(parsed_lines)
    /\ pc' = "done"
    /\ UNCHANGED <<file_path, file_exists, raw_lines, raised, parsed_count,
                   parsed_lines, exceptions, i, headers, skips, extract_vars,
                   probe_vars, caller_vars>>

Next ==
    \/ OpenFile
    \/ ParseLine
    \/ ParseDone
    \/ SkipLine
    \/ BeginExtract
    \/ AbsorbLine
    \/ EndExtract
    \/ Finish

Spec == Init /\ [][Next]_vars

\* the files of the runs whose end is checked
MaxFairLines == 2

FairFiles == SeqsUpTo(Pool, MaxFairLines) \cup HugeFiles

InitFair ==
    /\ raw_lines \in FairFiles
    /\ Init

\* the call is one thread of control that runs on as long as it has a next
\* statement
SpecFair == InitFair /\ [][Next]_vars /\ WF_vars(Next)

(***************************************************************************)
(* Several calls of analyze_log_file on one agent, one after the other.    *)
(***************************************************************************)
\* the input of the call under way and, once it has ended, what it gave
CallInput == <<file_path, file_exists, raw_lines>>

\* a call that raises gives its exception, one that returns its list
CallOutput == IF pc = "error" THEN <<"raised", raised>>
                              ELSE <<"returned", exceptions>>

InitRepeat ==
    /\ file_exists \in BOOLEAN
    /\ file_path = (IF file_exists THEN "app.log" ELSE "nonexistent_file.log")
    /\ raw_lines \in (IF file_exists THEN RepeatFiles ELSE {<< >>})
    /\ pc = "start"
    /\ raised = << >>
    /\ parsed_count = 0
    /\ parsed_lines = << >>
    /\ exceptions = << >>
    /\ i = 0
    /\ headers = << >>
    /\ skips = << >>
    /\ NoExtraction
    /\ probe = ""
    /\ verdict = << >>
    /\ earlier = << >>
    /\ NoWorkflow

\* the call has returned or raised and the caller makes the next call on
\* the same agent; the call that ended may be the one that is remembered
NextCall ==
    /\ pc \in {"done", "error"}
    /\ \E e \in BOOLEAN :
          \E f \in (IF e THEN RepeatFiles ELSE {<< >>}) :
              /\ file_exists' = e
              /\ file_path' = (IF e THEN "app.log" ELSE "nonexistent_file.log")
              /\ raw_lines' = f
    /\ pc' = "start"
    /\ raised' = << >>
    /\ skips' = << >>
    /\ earlier' \in
          (IF earlier = << >>
           THEN {<< >>, << [input  |-> CallInput, output |-> CallOutput,
                            others |-> FALSE] >>}
           ELSE {<< [earlier[1] EXCEPT
                        !.others = @ \/ earlier[1].input # CallInput] >>})
    /\ UNCHANGED <<parsed_count, parsed_lines, exceptions, i, headers,
                   extract_vars, probe_vars, workflow_vars>>

NextRepeat ==
    \/ OpenFile
    \/ ParseLine
    \/ ParseDone
    \/ SkipLine
    \/ BeginExtract
    \/ AbsorbLine
    \/ EndExtract
    \/ Finish
    \/ NextCall

SpecRepeat == InitRepeat /\ [][NextRepeat]_vars

(***************************************************************************)
(* A direct call of is_exception_line, as the unit tests make it.          *)
(***************************************************************************)
InitDetect ==
    /\ file_path = ""
    /\ file_exists = FALSE
    /\ raw_lines = << >>
    /\ pc = "start"
    /\ raised = << >>
    /\ parsed_count = 0
    /\ parsed_lines = << >>
    /\ exceptions = << >>
    /\ i = 0
    /\ headers = << >>
    /\ skips = << >>
    /\ NoExtraction
    /\ probe \in Messages
    /\ verdict = << >>
    /\ earlier = << >>
    /\ NoWorkflow

Detect ==
    /\ verdict = << >>
    /\ verdict' = << is_exception_line(probe) >>
    /\ UNCHANGED <<scan_vars, extract_vars, probe, caller_vars>>

NextDetect == Detect

SpecDetect == InitDetect /\ [][NextDetect]_vars

(***************************************************************************)
(* The last step of extract_exception_details on a given stack_trace.      *)
(***************************************************************************)
\* no call of analyze_log_file is under way
NoCall ==
    /\ file_path = ""
    /\ file_exists = FALSE
    /\ raw_lines = << >>
    /\ pc = "start"
    /\ raised = << >>
    /\ parsed_count = 0
    /\ parsed_lines = << >>
    /\ exceptions = << >>
    /\ i = 0
    /\ headers = << >>
    /\ skips = << >>
    /\ NoExtraction

InitLocate ==
    /\ NoCall
    /\ probe \in Traces
    /\ verdict = << >>
    /\ earlier = << >>
    /\ NoWorkflow

Locate ==
    /\ verdict = << >>
    /\ verdict' = << head_location(probe) >>
    /\ UNCHANGED <<scan_vars, extract_vars, probe, caller_vars>>

NextLocate == Locate

SpecLocate == InitLocate /\ [][NextLocate]_vars

(***************************************************************************)
(* A direct call of parse_log_line, as the unit tests make it.             *)
(***************************************************************************)
InitParse ==
    /\ NoCall
    /\ probe \in Lines
    /\ verdict = << >>
    /\ earlier = << >>
    /\ NoWorkflow

Parse ==
    /\ verdict = << >>
    /\ verdict' = << parse_log_line(probe) >>
    /\ UNCHANGED <<scan_vars, extract_vars, probe, caller_vars>>

NextParse == Parse

SpecParse == InitParse /\ [][NextParse]_vars

(***************************************************************************)
(* The type and message step of extract_exception_details on the message   *)
(* of a header: a lead, a class name, a colon with blanks, a text, a tail. *)
(***************************************************************************)
TypeLeads == {"", "Request failed; ", "Caused by: "}

TypeNames == {"java.lang.NullPointerException", "FooException", "Exception",
              "a..bException", "IllegalStateError"}

Colons == {"", ":", ": ", ":  "}

Texts == {"", "boom", "x at y", "at x", "look  at this", "x at"}

TypeTails == {"", " at a.B.c(B.java:10)", "\tat a.B.c(B.java:10)"}

\* the messages of header lines: trimmed, and is_exception_line is true
HeaderMessages ==
    {m \in {l \o n \o c \o x \o t :
                l \in TypeLeads, n \in TypeNames, c \in Colons, x \in Texts,
                t \in TypeTails} :
        Strip(m) = m /\ is_exception_line(m)}

InitType ==
    /\ NoCall
    /\ probe \in HeaderMessages
    /\ verdict = << >>
    /\ earlier = << >>
    /\ NoWorkflow

ExtractType ==
    /\ verdict = << >>
    /\ verdict' = << type_and_message(probe) >>
    /\ UNCHANGED <<scan_vars, extract_vars, probe, caller_vars>>

NextType == ExtractType

SpecType == InitType /\ [][NextType]_vars

(***************************************************************************)
(* Calls on files with blank lines before, inside and after an exception   *)
(* block, and with up to MaxPadding lines before the header.               *)
(***************************************************************************)
MaxPadding == 6

Padding(n) == [k \in 1..n |-> IF k = 1 THEN StampedMoreLine ELSE PlainLine]

Blanks == {<< >>, <<BlankLine>>, <<"", BlankLine>>}

BlankFiles ==
    {Padding(n) \o b1 \o <<HeaderLine>> \o b2 \o <<FrameLine>> \o b3
         \o <<CauseLine>> \o b4 \o <<PlainLine>> :
         n \in 4..MaxPadding, b1 \in Blanks, b2 \in Blanks, b3 \in Blanks,
         b4 \in Blanks}

InitBlank ==
    /\ file_exists = TRUE
    /\ file_path = "app.log"
    /\ raw_lines \in BlankFiles
    /\ pc = "start"
    /\ raised = << >>
    /\ parsed_count = 0
    /\ parsed_lines = << >>
    /\ exceptions = << >>
    /\ i = 0
    /\ headers = << >>
    /\ skips = << >>
    /\ NoExtraction
    /\ probe = ""
    /\ verdict = << >>
    /\ earlier = << >>
    /\ NoWorkflow

SpecBlank == InitBlank /\ [][Next]_vars

(***************************************************************************)
(* SpringBootLogAnalyzer (multi_agent_orchestrator.py): the workflow of    *)
(* the nodes supervisor, log_analysis, code_fixing and report_generation.  *)
(* A message is its role and its content; the "data" entry of a message is *)
(* left out.  A number with decimals is held in hundredths.                *)
(***************************************************************************)
\* AgentState as analyze_log_file builds it
initial_state(log_file_path) ==
    [messages          |-> << >>,
     log_file_path     |-> log_file_path,
     exceptions        |-> << >>,
     fixes             |-> << >>,
     current_step      |-> "start",
     error_message     |-> "",
     total_exceptions  |-> 0,
     total_fixes       |-> 0,
     workflow_complete |-> FALSE]

\* state["messages"].append({"role": role, "content": content})
append_message(st, role, content) ==
    [st EXCEPT !.messages = Append(@, [role |-> role, content |-> content])]

\* supervisor_node with the first step leading to code fixing at once
supervisor_node_skips_analysis(st) ==
    IF st.current_step = "start"
    THEN append_message([st EXCEPT !.current_step = "code_fixing"],
             "supervisor",
             "Starting log analysis for file: " \o st.log_file_path)
    ELSE IF st.current_step = "code_fixing_complete"
    THEN append_message([st EXCEPT !.current_step = "log_analysis"],
             "supervisor",
             "Code fixing complete. Generated " \o ToString(st.total_fixes)
                 \o " fixes. Generating final report...")
    ELSE IF st.current_step = "log_analysis_complete"
    THEN append_message([st EXCEPT !.current_step = "report_generation"],
             "supervisor",
             "No exceptions found in log file. Generating report...")
    ELSE st

\* supervisor_node without the test "total_exceptions > 0"
supervisor_node_always_fixes(st) ==
    IF st.log_file_path = ""
    THEN [st EXCEPT !.error_message = "No log file path provided",
                    !.workflow_complete = TRUE]
    ELSE IF st.current_step = "start"
    THEN append_message([st EXCEPT !.current_step = "log_analysis"],
             "supervisor",
             "Starting log analysis for file: " \o st.log_file_path)
    ELSE IF st.current_step = "log_analysis_complete"
    THEN append_message([st EXCEPT !.current_step = "code_fixing"],
             "supervisor",
             "Log analysis complete. Found "
                 \o ToString(st.total_exceptions)
                 \o " exceptions. Starting code fixing...")
    ELSE IF st.current_step = "code_fixing_complete"
    THEN append_message([st EXCEPT !.current_step = "report_generation"],
             "supervisor",
             "Code fixing complete. Generated " \o ToString(st.total_fixes)
                 \o " fixes. Generating final report...")
    ELSE IF st.current_step = "report_complete"
    THEN append_message([st EXCEPT !.workflow_complete = TRUE],
             "supervisor", "Workflow completed successfully!")
    ELSE st

\* _supervisor_node
supervisor_node(st) ==
    IF st.log_file_path = ""
    THEN [st EXCEPT !.error_message = "No log file path provided",
                    !.workflow_complete = TRUE]
    ELSE IF st.current_step = "start"
    THEN append_message([st EXCEPT !.current_step = "log_analysis"],
             "supervisor",
             "Starting log analysis for file: " \o st.log_file_path)
    ELSE IF st.current_step = "log_analysis_complete"
    THEN IF st.total_exceptions > 0
         THEN append_message([st EXCEPT !.current_step = "code_fixing"],
                  "supervisor",
                  "Log analysis complete. Found "
                      \o ToString(st.total_exceptions)
                      \o " exceptions. Starting code fixing...")
         ELSE append_message(
                  [st EXCEPT !.current_step = "report_generation"],
                  "supervisor",
                  "No exceptions found in log file. Generating report...")
    ELSE IF st.current_step = "code_fixing_complete"
    THEN append_message([st EXCEPT !.current_step = "report_generation"],
             "supervisor",
             "Code fixing complete. Generated " \o ToString(st.total_fixes)
                 \o " fixes. Generating final report...")
    ELSE IF st.current_step = "report_complete"
    THEN append_message([st EXCEPT !.workflow_complete = TRUE],
             "supervisor", "Workflow completed successfully!")
    ELSE st

\* supervisor_decision without the test of error_message
supervisor_decision_ignores_error(st) ==
    IF st.workflow_complete THEN "end"
    ELSE IF st.current_step = "log_analysis" THEN "log_analysis"
    ELSE IF st.current_step = "code_fixing" THEN "code_fixing"
    ELSE IF st.current_step = "report_generation" THEN "report_generation"
    ELSE "end"

\* _supervisor_decision
supervisor_decision(st) ==
    IF st.workflow_complete \/ st.error_message # "" THEN "end"
    ELSE IF st.current_step = "log_analysis" THEN "log_analysis"
    ELSE IF st.current_step = "code_fixing" THEN "code_fixing"
    ELSE IF st.current_step = "report_generation" THEN "report_generation"
    ELSE "end"

\* the conditional edges of the supervisor: the node a decision leads to
conditional_edge(decision) == IF decision = "end" THEN "END" ELSE decision

\* the state after the try block of _log_analysis_node
log_analysis_done(st, found) ==
    append_message([st EXCEPT !.exceptions = found,
                              !.total_exceptions = Len(found),
                              !.current_step = "log_analysis_complete"],
        "log_analyst",
        "Successfully analyzed log file. Found " \o ToString(Len(found))
            \o " exceptions.")

\* the state after the except clause of a node: text is str(e)
node_failed(st, role, failed, during, text) ==
    append_message([st EXCEPT !.error_message = failed \o text],
        role, during \o text)

(***************************************************************************)
(* CodeFixingAgent (code_fixing_agent.py).  What the LLM gives is an       *)
(* input: the call raises, or its content is no JSON, or JSON that is no   *)
(* object, or an object with or without "confidence_score".  A JSON value  *)
(* is its type and, for a number, its value in hundredths.                 *)
(***************************************************************************)
Number(hundredths) == [type |-> "number", hundredths |-> hundredths]

NotANumber == [type |-> "string", hundredths |-> 0]

\* the values of "confidence_score" in the answers: 0.85 as in the prompt,
\* a number above 1 and a text
ConfidenceValues == {Number(85), Number(150), NotANumber}

Answers ==
    {[kind |-> k, has_confidence |-> FALSE, confidence |-> Number(0)] :
         k \in {"raises", "no_json", "no_object", "object"}}
    \cup {[kind |-> "object", has_confidence |-> TRUE, confidence |-> c] :
              c \in ConfidenceValues}

\* CodeFix: the fields the workflow reads
code_fix(exc_info, root_cause, confidence_score) ==
    [exception_type    |-> exc_info.exception_type,
     exception_message |-> exc_info.exception_message,
     root_cause        |-> root_cause,
     confidence_score  |-> confidence_score]

\* analyze_exception: an answer that is JSON but no object makes
\* fix_data.get raise, which the outer except clause catches
analyze_exception(exc_info, answer) ==
    IF answer.kind = "raises" \/ answer.kind = "no_object"
    THEN code_fix(exc_info, "Error analyzing exception", Number(0))
    ELSE IF answer.kind = "no_json"
    THEN code_fix(exc_info, "Unable to parse LLM response", Number(30))
    ELSE code_fix(exc_info, "Unknown",
                  IF answer.has_confidence THEN answer.confidence
                                           ELSE Number(50))

\* analyze_multiple_exceptions with the placeholder of the except clause
\* appended next to the fix of an analysis that failed
analyze_multiple_exceptions_twice(found, answers) ==
    LET fixes[k \in 0..Len(found)] ==
            IF k = 0 THEN << >>
            ELSE IF answers[k].kind = "raises"
            THEN fixes[k - 1]
                     \o << analyze_exception(found[k], answers[k]),
                           code_fix(found[k], "Analysis failed", Number(0)) >>
            ELSE Append(fixes[k - 1], analyze_exception(found[k], answers[k]))
    IN  fixes[Len(found)]

\* analyze_multiple_exceptions: analyze_exception never raises, so the
\* placeholder of the except clause is never made
analyze_multiple_exceptions(found, answers) ==
    [k \in 1..Len(found) |-> analyze_exception(found[k], answers[k])]

\* the 5 of "len(exc.stack_trace) > 5"
MainTraceLen == 5

is_main_exception(exc) ==
    exc.stack_trace # << >> /\ Len(exc.stack_trace) > MainTraceLen

\* main_exceptions of _code_fixing_node
main_exceptions(found) == SelectSeq(found, is_main_exception)

\* sum([fix.confidence_score for fix in fixes]) raises TypeError
sum_raises(fixes) ==
    \E k \in 1..Len(fixes) : fixes[k].confidence_score.type # "number"

\* _code_fixing_node: the state is updated before the message is built
code_fixing_node(st, answers) ==
    LET fixes == analyze_multiple_exceptions(main_exceptions(st.exceptions),
                                             answers)
        updated == [st EXCEPT !.fixes = fixes,
                              !.total_fixes = Len(fixes),
                              !.current_step = "code_fixing_complete"]
    IN  IF sum_raises(fixes)
        THEN node_failed(updated, "code_fixer", "Code fixing failed: ",
                         "Error during code fixing: ",
                         "unsupported operand type(s) for +")
        ELSE append_message(updated, "code_fixer",
                 "Successfully generated " \o ToString(Len(fixes))
                     \o " code fixes.")

\* os.path.basename
basename(path) ==
    LET last[j \in Nat] ==
            IF j = 0 THEN 0
            ELSE IF Ch(path, j) = "/" THEN j
            ELSE last[j - 1]
    IN  From(path, last[Len(path)] + 1)

report_path(st) == "analysis_report_" \o basename(st.log_file_path) \o ".md"

\* the state after the try block of _report_generation_node
report_done(st) ==
    append_message([st EXCEPT !.current_step = "report_complete"],
        "reporter",
        "Generated comprehensive analysis report: " \o report_path(st))

\* the dict analyze_log_file returns for a missing file
not_found_result(log_file_path) ==
    [success           |-> FALSE,
     error             |-> "Log file not found: " \o log_file_path,
     workflow_complete |-> FALSE]

\* the dict analyze_log_file returns after the workflow
workflow_result(final_state) ==
    [success           |-> final_state.error_message = "",
     error             |-> final_state.error_message,
     log_file_path     |-> final_state.log_file_path,
     total_exceptions  |-> final_state.total_exceptions,
     total_fixes       |-> final_state.total_fixes,
     exceptions        |-> final_state.exceptions,
     fixes             |-> final_state.fixes,
     messages          |-> final_state.messages,
     workflow_complete |-> final_state.workflow_complete]

(***************************************************************************)
(* Inputs of the workflow: files whose blocks have up to MaxFrames frames, *)
(* so that some records are main exceptions and some are not.              *)
(***************************************************************************)
MaxFrames == 6

Frames(n) == [k \in 1..n |-> FrameLine]

WorkflowFiles ==
    {<< >>, <<PlainLine>>, <<PlainLine, PlainLine>>}
    \cup {<<HeaderLine>> \o Frames(n) : n \in 0..MaxFrames}
    \cup {<<HeaderLine>> \o Frames(n) \o <<CauseLine>> \o Frames(MaxFrames)
              : n \in {0, MaxFrames}}
    \cup {<<HeaderLine>> \o Frames(MaxFrames) \o <<CauseLine>>}
    \cup HugeFiles

\* a call of the agent's analyze_log_file by a test (node = "none") or of
\* SpringBootLogAnalyzer.analyze_log_file (node = "entry")
InitWorkflow ==
    /\ file_exists \in BOOLEAN
    /\ file_path = (IF file_exists THEN "app.log" ELSE "nonexistent_file.log")
    /\ raw_lines \in (IF file_exists THEN WorkflowFiles ELSE {<< >>})
    /\ node \in {"none", "entry"}
    /\ pc = (IF node = "none" THEN "start" ELSE "idle")
    /\ raised = << >>
    /\ parsed_count = 0
    /\ parsed_lines = << >>
    /\ exceptions = << >>
    /\ i = 0
    /\ headers = << >>
    /\ skips = << >>
    /\ NoExtraction
    /\ probe = ""
    /\ verdict = << >>
    /\ earlier = << >>
    /\ state = << >>
    /\ result = << >>
    /\ nodes_run = << >>
    /\ reports = {}

\* Entry without the os.path.exists test
EntryNoExistsCheck ==
    /\ node = "entry"
    /\ state' = << initial_state(file_path) >>
    /\ node' = "supervisor"
    /\ UNCHANGED <<scan_vars, extract_vars, probe_vars, earlier, result,
                   nodes_run, reports>>

\* SpringBootLogAnalyzer.analyze_log_file up to workflow.invoke: a missing
\* file is answered at once, else the graph starts at the supervisor
Entry ==
    /\ node = "entry"
    /\ IF file_exists
       THEN /\ state' = << initial_state(file_path) >>
            /\ node' = "supervisor"
            /\ UNCHANGED result
       ELSE /\ result' = << not_found_result(file_path) >>
            /\ node' = "returned"
            /\ UNCHANGED state
    /\ UNCHANGED <<scan_vars, extract_vars, probe_vars, earlier, nodes_run,
                   reports>>

\* read_log_file on a file that exists and cannot be read (no permission,
\* bytes that are not UTF-8): open or readlines raises, and the except
\* clause raises Exception("Error reading log file ...") in its place.
\* The files of the other specifications are readable.
ReadLogFileRaises ==
    /\ pc = "start"
    /\ file_exists
    /\ pc' = "error"
    /\ raised' = << [type    |-> "Exception",
                     message |-> "Error reading log file " \o file_path
                                     \o ": Permission denied"] >>
    /\ UNCHANGED <<file_path, file_exists, raw_lines, parsed_count,
                   parsed_lines, exceptions, i, headers, skips,
                   extract_vars, probe_vars, caller_vars>>

\* the supervisor node and the conditional edge that follows it
Supervisor ==
    /\ node = "supervisor"
    /\ state' = << supervisor_node(state[1]) >>
    /\ node' = conditional_edge(supervisor_decision(state'[1]))
    /\ nodes_run' = Append(nodes_run, "supervisor")
    /\ UNCHANGED <<scan_vars, extract_vars, probe_vars, earlier, result,
                   reports>>

\* _log_analysis_node calls self.log_agent.analyze_log_file
LogAnalysisCall ==
    /\ node = "log_analysis"
    /\ pc = "idle"
    /\ pc' = "start"
    /\ nodes_run' = Append(nodes_run, "log_analysis")
    /\ UNCHANGED <<file_path, file_exists, raw_lines, raised, parsed_count,
                   parsed_lines, exceptions, i, headers, skips,
                   extract_vars, probe_vars, earlier, node, state, result,
                   reports>>

\* the agent's call has returned or raised: the rest of _log_analysis_node,
\* and the edge back to the supervisor
LogAnalysisReturn ==
    /\ node = "log_analysis"
    /\ pc \in {"done", "error"}
    /\ state' = << IF pc = "done"
                   THEN log_analysis_done(state[1], exceptions)
                   ELSE node_failed(state[1], "log_analyst",
                            "Log analysis failed: ",
                            "Error during log analysis: ",
                            raised[1].message) >>
    /\ pc' = "idle"
    /\ node' = "supervisor"
    /\ UNCHANGED <<file_path, file_exists, raw_lines, raised, parsed_count,
                   parsed_lines, exceptions, i, headers, skips,
                   extract_vars, probe_vars, earlier, result, nodes_run,
                   reports>>

\* _code_fixing_node, with one answer of the LLM for each main exception,
\* and the edge back to the supervisor
CodeFixing ==
    /\ node = "code_fixing"
    /\ \E answers \in
           [1..Len(main_exceptions(state[1].exceptions)) -> Answers] :
           state' = << code_fixing_node(state[1], answers) >>
    /\ node' = "supervisor"
    /\ nodes_run' = Append(nodes_run, "code_fixing")
    /\ UNCHANGED <<scan_vars, extract_vars, probe_vars, earlier, result,
                   reports>>

\* _report_generation_node: writing the report file works or raises; the
\* edge leads to END
ReportGeneration ==
    /\ node = "report_generation"
    /\ \E written \in BOOLEAN :
           IF written
           THEN /\ reports' = reports \cup {report_path(state[1])}
                /\ state' = << report_done(state[1]) >>
           ELSE /\ UNCHANGED reports
                /\ state' = << node_failed(state[1], "reporter",
                                   "Report generation failed: ",
                                   "Error during report generation: ",
                                   "Permission denied") >>
    /\ node' = "END"
    /\ nodes_run' = Append(nodes_run, "report_generation")
    /\ UNCHANGED <<scan_vars, extract_vars, probe_vars, earlier, result>>

\* workflow.invoke has returned the final state: the result is built
Return ==
    /\ node = "END"
    /\ result' = << workflow_result(state[1]) >>
    /\ node' = "returned"
    /\ UNCHANGED <<scan_vars, extract_vars, probe_vars, earlier, state,
                   nodes_run, reports>>

NextWorkflow ==
    \/ Entry
    \/ Supervisor
    \/ LogAnalysisCall
    \/ OpenFile
    \/ ReadLogFileRaises
    \/ ParseLine
    \/ ParseDone
    \/ SkipLine
    \/ BeginExtract
    \/ AbsorbLine
    \/ EndExtract
    \/ Finish
    \/ LogAnalysisReturn
    \/ CodeFixing
    \/ ReportGeneration
    \/ Return

SpecWorkflow == InitWorkflow /\ [][NextWorkflow]_vars

\* workflow.invoke and the agent's call are one thread of control that runs
\* on as long as it has a next statement
SpecWorkflowFair ==
    InitWorkflow /\ [][NextWorkflow]_vars /\ WF_vars(NextWorkflow)

(***************************************************************************)
(* Properties.  Record x of exceptions has its header at Python index      *)
(* headers[x], which is parsed_lines[headers[x] + 1]; the lines its trace  *)
(* absorbed are parsed_lines[headers[x] + 2 .. headers[x] + 1 + T] for     *)
(* T = Len(stack_trace).                                                   *)
(***************************************************************************)
Records == 1..Len(exceptions)

HeaderOf(x) == parsed_lines[headers[x] + 1]

TraceLen(x) == Len(exceptions[x].stack_trace)

\* the Python indexes of the lines for which is_exception_line is true
HeaderIndexes ==
    {k \in 0..(Len(parsed_lines) - 1) :
        is_exception_line(parsed_lines[k + 1].message)}

\* C1: a format-1 header whose message declares an exception, followed by
\* the indented frame line "at a.B.c(B.java:10)", gives a record with
\* file_path B.java, line_number 10, method_name c and class_name a.B.
C1_HeadLocationOfFixture ==
    \A x \in Records :
        ( /\ spring_boot(HeaderOf(x).raw_line) # << >>
          /\ headers[x] + 2 <= Len(parsed_lines)
          /\ parsed_lines[headers[x] + 2].is_continuation
          /\ parsed_lines[headers[x] + 2].message = "at a.B.c(B.java:10)" )
        => /\ exceptions[x].file_path = "B.java"
           /\ exceptions[x].line_number = << 10 >>
           /\ exceptions[x].method_name = << "c" >>
           /\ exceptions[x].class_name = << "a.B" >>

\* the header's message is a package-qualified exception class, a colon and
\* a plain text: the class starts the message and holds a dot, the text is
\* not empty and holds no " at "
QualifiedClassAndText(message) ==
    LET e == ChainEnd(message, 1)
    IN  /\ e # 0
        /\ Contains(SubSeq(message, 1, e - 1), ".")
        /\ SpanIn(message, e + 1, Space) <= Len(message)
        /\ \A k \in e..Len(message) : ~AtSeparator(message, k)

ClassOf(message) == SubSeq(message, 1, ChainEnd(message, 1) - 1)

TextOf(message) ==
    From(message, SpanIn(message, ChainEnd(message, 1) + 1, Space))

\* C2 as stated: for a header "java.lang.NullPointerException: boom" the
\* exception_type is the class name without its package,
\* NullPointerException, and exception_message is the text after the colon.
C2_SimpleTypeName ==
    pc = "done" => \A x \in Records :
        QualifiedClassAndText(HeaderOf(x).message)
        => /\ exceptions[x].exception_type =
                  From(ClassOf(HeaderOf(x).message),
                       LastDot(ClassOf(HeaderOf(x).message),
                               Len(ClassOf(HeaderOf(x).message))) + 1)
           /\ exceptions[x].exception_message = TextOf(HeaderOf(x).message)

\* C2 amended: for a header "java.lang.NullPointerException: boom" the
\* exception_type is the package-qualified class name as it is written,
\* java.lang.NullPointerException, and exception_message is the text after
\* the colon.
C2_QualifiedTypeName ==
    pc = "done" => \A x \in Records :
        QualifiedClassAndText(HeaderOf(x).message)
        => /\ exceptions[x].exception_type = ClassOf(HeaderOf(x).message)
           /\ exceptions[x].exception_message = TextOf(HeaderOf(x).message)

C2_Witness ==
    /\ pc = "done"
    /\ \E x \in Records :
        /\ HeaderOf(x).message = "java.lang.NullPointerException: boom"
        /\ QualifiedClassAndText(HeaderOf(x).message)
        /\ exceptions[x].exception_message = "boom"

\* C3: analyze_log_file returns at most as many records as there are
\* classified lines for which is_exception_line is true.
C3_RecordsAtMostHeaders ==
    pc = "done" => Len(exceptions) <= Cardinality(HeaderIndexes)

C3_Witness ==
    /\ pc = "done"
    /\ Len(exceptions) = 2
    /\ Len(parsed_lines) = 3

\* a stack-frame line: the trimmed message starts with the frame marker
IsStackFrameLine(line) == LitAt(Strip(line.message), 1, "at ")

\* an elision marker: the trimmed message is "... N more"
IsElisionMarker(line) == more_lines_match(" " \o Strip(line.message))

InBlockClass(line) ==
    \/ IsStackFrameLine(line)
    \/ IsElisionMarker(line)
    \/ Contains(line.message, "Caused by:")
    \/ line.is_continuation /\ Strip(line.message) # ""

\* C4: the lines a record's trace has absorbed are each a stack-frame line,
\* an elision marker, a line containing "Caused by:" or a non-empty
\* continuation line, and the line at which absorption stopped is none of
\* these.
C4_AbsorbedIffInBlockClass ==
    \A x \in Records :
        /\ \A n \in 1..TraceLen(x) :
               InBlockClass(parsed_lines[headers[x] + 1 + n])
        /\ headers[x] + TraceLen(x) + 2 <= Len(parsed_lines)
               => ~InBlockClass(parsed_lines[headers[x] + TraceLen(x) + 2])

\* the Python indexes the except clause of the driver was entered for
SkippedIndexes == {skips[n] : n \in 1..Len(skips)}

\* C5 as stated: a line that a record's trace has absorbed and that is
\* itself an exception line gets its own, later record once the driver has
\* passed it, and is an entry of the earlier record's trace as well.
C5_AbsorbedHeaderGetsOwnRecord ==
    \A x \in Records :
        \A k \in (headers[x] + 1)..(headers[x] + TraceLen(x)) :
            (k < i /\ k \in HeaderIndexes)
            => \E y \in Records :
                   /\ y > x
                   /\ headers[y] = k
                   /\ exceptions[x].stack_trace[k - headers[x]] =
                          Strip(HeaderOf(y).message)

\* C5 amended: a line that a record's trace has absorbed and that is itself
\* an exception line is examined again once the driver has passed it: it
\* gets its own, later record and is an entry of the earlier record's trace
\* as well, unless its extraction raised, and then the driver has printed
\* the error for it.
C5_AbsorbedHeaderRecordOrSkip ==
    \A x \in Records :
        \A k \in (headers[x] + 1)..(headers[x] + TraceLen(x)) :
            (k < i /\ k \in HeaderIndexes)
            => \/ \E y \in Records :
                      /\ y > x
                      /\ headers[y] = k
                      /\ exceptions[x].stack_trace[k - headers[x]] =
                             Strip(HeaderOf(y).message)
               \/ /\ k \in SkippedIndexes
                  /\ extraction_raises(
                         <<Strip(parsed_lines[k + 2].message)>>)

C5_Witness ==
    /\ pc = "done"
    /\ \E x, y \in Records :
        /\ x < y
        /\ headers[y] > headers[x] + 1
        /\ headers[y] <= headers[x] + TraceLen(x)
        /\ Contains(HeaderOf(y).message, "Caused by:")

\* C6: is_exception_line is false for a message that, trimmed, starts with
\* "at " or with an elision marker "... N more", whatever else it holds.
C6_TraceLinesAreNoHeaders ==
    ( /\ verdict # << >>
      /\ \/ LitAt(Strip(probe), 1, "at ")
         \/ more_lines_match(" " \o Strip(probe)) )
    => verdict = << FALSE >>

C6_Witness ==
    /\ verdict = << FALSE >>
    /\ LitAt(Strip(probe), 1, "at ")
    /\ LitAt(probe, 1, " ")
    /\ MatchesExceptionPattern(probe)

ListedPackages == {"java.lang.", "java.io.", "java.sql.", "org.springframework."}

\* the message is the name of an exception class of a listed package or of
\* one of its sub-packages
NamesListedClass(message) ==
    \E prefix \in ListedPackages :
        /\ LitAt(message, 1, prefix)
        /\ Ch(message, Len(prefix) + 1) \in Word
        /\ SpanIn(message, 1, ChainChar) = Len(message) + 1
        /\ ~Contains(message, "..")
        /\ LitAt(message, Len(message) - 8, "Exception")

\* C7: is_exception_line is true for the bare name of an exception class of
\* a listed package, sub-packages included, and for "Caused by: <identifier>",
\* and false for "Starting Application on localhost".
C7_ListedClassIsHeader ==
    verdict # << >>
    => /\ NamesListedClass(probe) => verdict = << TRUE >>
       /\ (LitAt(probe, 1, "Caused by: ") /\ Ch(probe, 12) \in Word)
              => verdict = << TRUE >>
       /\ probe = "Starting Application on localhost" => verdict = << FALSE >>

\* C8: a record's surrounding_context is the raw text of the min(5, k) lines
\* before its header k, oldest first: never more than 5, never the header.
C8_ContextWindow ==
    \A x \in Records :
        LET k == headers[x]
            n == IF k < 5 THEN k ELSE 5
        IN  /\ Len(exceptions[x].surrounding_context) = n
            /\ \A j \in 1..n :
                   exceptions[x].surrounding_context[j] =
                       parsed_lines[k - n + j].raw_line

C8_Witness ==
    \E x \in Records :
        /\ headers[x] = 6
        /\ Len(exceptions[x].surrounding_context) = 5
        /\ exceptions[x].surrounding_context[1] #
               exceptions[x].surrounding_context[5]

\* C9: entry n of a record's stack_trace is the trimmed message of the n-th
\* line after its header: no line skipped, none out of order.
C9_TraceKeepsOrder ==
    \A x \in Records :
        \A n \in 1..TraceLen(x) :
            exceptions[x].stack_trace[n] =
                Strip(parsed_lines[headers[x] + 1 + n].message)

C9_Witness ==
    \E x \in Records :
        /\ TraceLen(x) = 2
        /\ LitAt(exceptions[x].stack_trace[1], 1, "at ")
        /\ LitAt(exceptions[x].stack_trace[2], 1, "Caused by:")

\* C10: a header whose message neither exception_line nor caused_by matches
\* gives a record of type "Unknown" with the header's message as its
\* message, and the scan goes on to the end of the lines: every exception
\* line has its record or, when its extraction raised, its printed error.
C10_UnknownFallback ==
    /\ file_exists => pc # "error"
    /\ pc = "done" =>
           /\ \A x \in Records :
                  ( /\ exception_line(HeaderOf(x).message) = << >>
                    /\ caused_by(HeaderOf(x).message) = << >> )
                  => /\ exceptions[x].exception_type = "Unknown"
                     /\ exceptions[x].exception_message =
                            HeaderOf(x).message
           /\ i = Len(parsed_lines)
           /\ \A k \in HeaderIndexes :
                  \/ \E x \in Records : headers[x] = k
                  \/ k \in SkippedIndexes

C10_Witness ==
    /\ pc = "done"
    /\ \E x, y \in Records :
        /\ x < y
        /\ exceptions[x].exception_type = "Unknown"
        /\ exceptions[x].exception_message = "Exception in thread main"
        /\ exception_line(HeaderOf(x).message) = << >>

\* C11: the frame text "at com.example.Foo.bar(Foo.java:42)" as first trace
\* entry gives file Foo.java, line 42, class_name com.example.Foo and
\* method_name bar; a qualifier without "." gives no class_name and the
\* whole qualifier as method_name.
C11_FrameTextParses ==
    (verdict # << >> /\ probe # << >>)
    => /\ probe[1] = "at com.example.Foo.bar(Foo.java:42)"
          => verdict[1] = [file_path   |-> "Foo.java",
                           line_number |-> << 42 >>,
                           method_name |-> << "bar" >>,
                           class_name  |-> << "com.example.Foo" >>]
       /\ probe[1] = "at main(Foo.java:1)"
          => /\ verdict[1].class_name = << >>
             /\ verdict[1].method_name = << "main" >>

\* the frame pattern is found somewhere in the entry
ContainsFrame(entry) == \E p \in 1..Len(entry) : FrameAt(entry, p) # << >>

\* C12: the head-location fields come from the first trace entry only: they
\* are unset when the frame pattern is not found in the first entry, also
\* when it is found in a later one, and otherwise they are text of the
\* first entry.
C12_OnlyFirstEntryLocates ==
    verdict # << >>
    => IF probe # << >> /\ ContainsFrame(probe[1])
       THEN /\ verdict[1].method_name # << >>
            /\ verdict[1].line_number # << >>
            /\ Contains(probe[1], verdict[1].method_name[1] \o "("
                                     \o verdict[1].file_path \o ":")
       ELSE /\ verdict[1].file_path = ""
            /\ verdict[1].line_number = << >>
            /\ verdict[1].method_name = << >>
            /\ verdict[1].class_name = << >>

C12_Witness ==
    /\ verdict # << >>
    /\ Len(probe) = 3
    /\ LitAt(probe[1], 1, "Caused by: java.sql")
    /\ ~ContainsFrame(probe[1])
    /\ probe[2] = "at a.B.c(B.java:10)"
    /\ ContainsFrame(probe[3])
    /\ verdict[1].file_path = ""

\* the names of the log levels
LevelNames == {"TRACE", "DEBUG", "INFO", "WARN", "ERROR", "FATAL"}

\* the trimmed line is a bare timestamp YYYY-MM-DD HH:MM:SS, blanks and a
\* message that does not begin with a level: the message, <<>> if it is not
BareTimestampMessage(line) ==
    LET t == Strip(line)
        e == TimestampEnd(t, FALSE)
        m == SpanIn(t, e, Space)
    IN  IF /\ e # 0 /\ m > e /\ m <= Len(t)
           /\ SubSeq(t, m, SpanIn(t, m, Word) - 1) \notin LevelNames
        THEN << From(t, m) >>
        ELSE << >>

\* C13: a line of the bare-timestamp form YYYY-MM-DD HH:MM:SS MESSAGE is
\* classified with level INFO and message MESSAGE, the whole text after the
\* timestamp, also when MESSAGE has several words.
C13_BareTimestampIsInfo ==
    (verdict # << >> /\ BareTimestampMessage(probe) # << >>)
    => /\ verdict[1] # << >>
       /\ verdict[1][1].level = "INFO"
       /\ verdict[1][1].message = BareTimestampMessage(probe)[1]
       /\ ~verdict[1][1].is_continuation

\* every character of the line is white space
Blank(line) == \A k \in 1..Len(line) : Ch(line, k) \in Space

\* one of the three formats matches the trimmed line
SomeFormatMatches(line) ==
    \/ spring_boot(Strip(line)) # << >>
    \/ alternative(Strip(line)) # << >>
    \/ simple(Strip(line)) # << >>

\* C14: parse_log_line returns no record exactly for a line that is blank
\* after trimming; the record of a non-blank line is a continuation exactly
\* when no format matched, and then its message is the trimmed line; when
\* a format matched, the line begins with the timestamp and ends with the
\* message, which is shorter than the line.
C14_ContinuationIffNoFormat ==
    verdict # << >>
    => /\ verdict[1] = << >> <=> Blank(probe)
       /\ verdict[1] # << >>
          => LET rec == verdict[1][1]
                 n   == Len(rec.raw_line)
             IN  /\ Len(rec.raw_line) <= Len(probe)
                 /\ Contains(probe, rec.raw_line)
                 /\ ~Blank(Ch(rec.raw_line, 1)) /\ ~Blank(Ch(rec.raw_line, n))
                 /\ rec.is_continuation <=> ~SomeFormatMatches(probe)
                 /\ rec.is_continuation
                    => /\ rec.message = rec.raw_line
                       /\ rec.timestamp = "" /\ rec.level = ""
                 /\ ~rec.is_continuation
                    => /\ rec.timestamp # ""
                       /\ LitAt(rec.raw_line, 1, rec.timestamp)
                       /\ Len(rec.message) + Len(rec.timestamp) < n
                       /\ From(rec.raw_line, n - Len(rec.message) + 1) =
                              rec.message

C14_Witness ==
    /\ verdict # << >>
    /\ verdict[1] # << >>
    /\ verdict[1][1].is_continuation
    /\ Len(verdict[1][1].message) < Len(probe)
    /\ LitAt(verdict[1][1].message, 1, "2024-01-01 00:00:00.123 INFO")

\* the fields of an ExceptionInfo
ExceptionInfoFields ==
    {"timestamp", "log_level", "exception_type", "exception_message",
     "stack_trace", "surrounding_context", "file_path", "line_number",
     "method_name", "class_name"}

\* the skipped headers a returned list tells of: its elements that are not
\* the record of an exception
SkipsReported(returned) ==
    Cardinality({n \in 1..Len(returned) :
                    DOMAIN returned[n] # ExceptionInfoFields})

\* C15: when extraction has failed for a header the pass goes on to the end
\* of the lines, and what analyze_log_file returns holds every record that
\* was assembled and tells how many headers were skipped.
C15_SkipsAreReported ==
    pc = "done"
    => /\ i = Len(parsed_lines)
       /\ \A k \in HeaderIndexes \ SkippedIndexes :
              \E x \in Records : headers[x] = k
       /\ SkipsReported(exceptions) = Len(skips)

\* C16: the records are returned in source order: of two records the earlier
\* one has the smaller header index, and each record is the one of its
\* header (its timestamp, level and context are those of that line).
C16_RecordsInSourceOrder ==
    pc = "done"
    => /\ \A x, y \in Records : x < y => headers[x] < headers[y]
       /\ \A x \in Records :
              /\ exceptions[x].timestamp = HeaderOf(x).timestamp
              /\ exceptions[x].log_level = HeaderOf(x).level
              /\ Len(exceptions[x].surrounding_context) =
                     (IF headers[x] < ContextLines THEN headers[x]
                                                   ELSE ContextLines)

C16_Witness ==
    /\ pc = "done"
    /\ Len(exceptions) = 2
    /\ headers = <<0, 2>>
    /\ exceptions[1].log_level = "ERROR"
    /\ exceptions[2].log_level = ""

\* C17: a call of analyze_log_file gives what an earlier call on the same
\* agent gave for the same input, record for record and field for field,
\* whatever was scanned in between.
C17_SameInputSameRecords ==
    ( /\ pc \in {"done", "error"}
      /\ earlier # << >>
      /\ earlier[1].input = CallInput )
    => earlier[1].output = CallOutput

C17_Witness ==
    /\ pc = "done"
    /\ earlier # << >>
    /\ earlier[1].input = CallInput
    /\ earlier[1].others
    /\ Len(exceptions) = 1
    /\ exceptions[1].stack_trace = <<"at a.B.c(B.java:10)">>

\* the steps of the driver: SCANNING is pc = "scan", EXTRACTING is
\* pc = "extract"
DriverStep ==
    /\ (pc = "scan" /\ pc' = "scan") => i' = i + 1
    /\ (pc = "scan" /\ pc' = "extract") => (i' = i /\ current_index' = i + 1)
    /\ (pc = "extract" /\ pc' = "extract")
           => (i' = i /\ current_index' = current_index + 1)
    /\ (pc = "extract" /\ pc' = "scan") => i' = i + 1
    /\ pc = "scan" => pc' \in {"scan", "extract", "done"}
    /\ pc = "extract" => pc' \in {"extract", "scan"}
    /\ pc' = "done" => (pc = "scan" /\ i = Len(parsed_lines))

\* C18: the scan of every file ends; i grows by exactly one per iteration
\* of the driver, with or without a block and also when extraction failed,
\* the absorption loop never goes beyond the last line, and the driver
\* goes from scanning to extracting and back until the lines are used up.
C18_ScanTerminates ==
    /\ <>(pc \in {"done", "error"})
    /\ [][DriverStep]_vars
    /\ [](pc = "extract" => (i < current_index
                              /\ current_index <= Len(parsed_lines)))
    /\ [](pc = "scan" => i <= Len(parsed_lines))

C18_Witness ==
    /\ pc = "done"
    /\ Len(parsed_lines) = 3
    /\ Len(exceptions) = 1
    /\ TraceLen(1) = 2
    /\ skips = <<1>>

\* C19: a file that exists never makes the call raise, and when none of
\* its classified lines is an exception line (an empty file has none) the
\* call returns the empty list and no extraction has failed.
C19_NoExceptionLinesNoRecords ==
    /\ file_exists => (pc # "error" /\ raised = << >>)
    /\ (pc = "done" /\ HeaderIndexes = {})
           => (exceptions = << >> /\ skips = << >>)

C19_Witness ==
    /\ pc = "done"
    /\ Len(parsed_lines) >= 2
    /\ HeaderIndexes = {}
    /\ exceptions = << >>

\* C20: for a missing file the agent's analyze_log_file raises
\* FileNotFoundError with nothing read, parsed or scanned, and
\* SpringBootLogAnalyzer.analyze_log_file returns success = False and an
\* error that contains "not found": no AgentState is built, no node runs,
\* the agent is not called, no report is written and the result holds
\* neither exceptions nor fixes.
C20_MissingFileFailsTheCall ==
    ~file_exists
    => /\ pc \in {"start", "idle", "error"}
       /\ parsed_count = 0
       /\ parsed_lines = << >>
       /\ exceptions = << >>
       /\ pc = "error"
              => /\ node = "none"
                 /\ Len(raised) = 1
                 /\ raised[1].type = "FileNotFoundError"
                 /\ Contains(raised[1].message, "not found")
       /\ raised # << >> => pc = "error"
       /\ node \in {"none", "entry", "returned"}
       /\ state = << >>
       /\ nodes_run = << >>
       /\ reports = {}
       /\ node = "entry" => result = << >>
       /\ node = "returned"
              => /\ pc = "idle"
                 /\ Len(result) = 1
                 /\ result[1].success = FALSE
                 /\ Contains(result[1].error, "not found")
                 /\ DOMAIN result[1] = {"success", "error", "workflow_complete"}

C20_Witness ==
    /\ ~file_exists
    /\ node = "returned"
    /\ result # << >>
    /\ result[1].error = "Log file not found: nonexistent_file.log"

\* the roles of the messages, in the order they were appended
Roles(messages) == [k \in 1..Len(messages) |-> messages[k].role]

\* C21: a workflow run on an existing file that found at least one
\* exception and ended without error_message has entered the nodes
\* supervisor, log_analysis, supervisor, code_fixing, supervisor,
\* report_generation in this order, each agent node once, and its messages
\* have the roles supervisor, log_analyst, supervisor, code_fixer,
\* supervisor, reporter; and code_fixing is never entered before
\* log_analysis has been entered and the agent's call has returned.
C21_StagesInOrder ==
    /\ (node = "returned" /\ file_exists /\ result[1].success
            /\ result[1].total_exceptions > 0)
           => /\ nodes_run = <<"supervisor", "log_analysis", "supervisor",
                               "code_fixing", "supervisor",
                               "report_generation">>
              /\ Roles(result[1].messages)
                     = <<"supervisor", "log_analyst", "supervisor",
                         "code_fixer", "supervisor", "reporter">>
    /\ (node = "code_fixing"
            \/ \E k \in 1..Len(nodes_run) : nodes_run[k] = "code_fixing")
           => /\ \E j \in 1..Len(nodes_run) :
                     /\ nodes_run[j] = "log_analysis"
                     /\ \A k \in 1..j : nodes_run[k] # "code_fixing"
              /\ pc = "idle"
              /\ \E m \in 1..Len(state[1].messages) :
                     /\ state[1].messages[m].role = "log_analyst"
                     /\ \A k \in 1..m :
                            state[1].messages[k].role # "code_fixer"

C21_Witness ==
    /\ node = "returned"
    /\ file_exists
    /\ result[1].success
    /\ result[1].total_exceptions = 2
    /\ result[1].total_fixes = 1
    /\ Len(nodes_run) = 6

\* the records of a state whose trace has more than 5 entries
LongRecords(st) ==
    {k \in 1..Len(st.exceptions) :
         Len(st.exceptions[k].stack_trace) > MainTraceLen}

\* C22: in the state of the workflow and in every result it returns,
\* total_fixes is the number of fixes and is at most total_exceptions;
\* once code_fixing has run there is exactly one fix for each record whose
\* stack_trace has more than 5 entries (also when its analysis failed) and
\* none for the other records.
C22_FixesWithinExceptions ==
    /\ state # << >>
           => /\ state[1].total_fixes = Len(state[1].fixes)
              /\ state[1].total_fixes <= state[1].total_exceptions
              /\ state[1].total_fixes <= Cardinality(LongRecords(state[1]))
    /\ (state # << >>
            /\ \E k \in 1..Len(nodes_run) : nodes_run[k] = "code_fixing")
           => /\ Len(state[1].fixes) = Cardinality(LongRecords(state[1]))
              /\ \A k \in 1..Len(state[1].fixes) :
                     \E x \in LongRecords(state[1]) :
                         /\ state[1].fixes[k].exception_type
                                = state[1].exceptions[x].exception_type
                         /\ state[1].fixes[k].exception_message
                                = state[1].exceptions[x].exception_message
    /\ (node = "returned" /\ file_exists)
           => /\ result[1].total_fixes <= result[1].total_exceptions
              /\ result[1].total_fixes = Len(result[1].fixes)
              /\ result[1].total_exceptions = Len(result[1].exceptions)

C22_Witness ==
    /\ node = "returned"
    /\ file_exists
    /\ result[1].total_exceptions = 2
    /\ result[1].total_fixes = 1
    /\ result[1].fixes[1].root_cause = "Error analyzing exception"
    /\ Len(result[1].exceptions[2].stack_trace) = 0

\* C23: every CodeFix that analyze_exception has returned has a
\* confidence_score that is a number from 0 to 1, whatever the LLM
\* answered.
C23_ConfidenceInUnitInterval ==
    state # << >>
    => \A k \in 1..Len(state[1].fixes) :
           /\ state[1].fixes[k].confidence_score.type = "number"
           /\ state[1].fixes[k].confidence_score.hundredths \in 0..100

\* C24: when the header of record y is a line that the trace of an earlier
\* record x has absorbed, the stack_trace of y is exactly what follows that
\* line in the stack_trace of x: the two blocks end at the same line.
C24_OverlappingRecordsAreNested ==
    pc = "done" =>
        \A x \in Records : \A y \in Records :
            (headers[x] < headers[y] /\ headers[y] <= headers[x] + TraceLen(x))
            => /\ headers[y] + TraceLen(y) = headers[x] + TraceLen(x)
               /\ exceptions[y].stack_trace
                      = SubSeq(exceptions[x].stack_trace,
                               headers[y] - headers[x] + 1, TraceLen(x))

C24_Witness ==
    /\ pc = "done"
    /\ Len(exceptions) = 2
    /\ headers = <<0, 1>>
    /\ TraceLen(1) = 2
    /\ exceptions[2].stack_trace = <<"at a.B.c(B.java:10)">>

\* C25: a record's timestamp and log_level are those of its header line;
\* when the header is a continuation line (no format matched it) both are
\* the empty string, also when the line before it is a timestamped one.
C25_HeaderOwnTimestampAndLevel ==
    pc = "done" =>
        \A x \in Records :
            /\ exceptions[x].timestamp = HeaderOf(x).timestamp
            /\ exceptions[x].log_level = HeaderOf(x).level
            /\ ~SomeFormatMatches(HeaderOf(x).raw_line)
                   => /\ HeaderOf(x).is_continuation
                      /\ exceptions[x].timestamp = ""
                      /\ exceptions[x].log_level = ""

C25_Witness ==
    /\ pc = "done"
    /\ \E x \in Records :
           /\ headers[x] >= 1
           /\ HeaderOf(x).raw_line = "Caused by: java.sql.SQLException: no db"
           /\ parsed_lines[headers[x]].timestamp = "2024-01-01 00:00:01"
           /\ parsed_lines[headers[x]].level = "INFO"
           /\ exceptions[x].timestamp = ""
           /\ exceptions[x].log_level = ""

NotBlank(line) == ~Blank(line)

\* the lines of the file that are not blank, in their order
NonBlankLines == SelectSeq(raw_lines, NotBlank)

\* the classification of the k-th non-blank line of the file
Classified(k) == parse_log_line(NonBlankLines[k])[1]

\* C26: the scan works on the non-blank lines of the file alone.  A
\* record's trace holds the trimmed messages of the non-blank lines that
\* follow its header up to the first one the loop does not append, whatever
\* blank lines lie between them; its context holds the up to 5 non-blank
\* lines before the header; and no entry of either is blank.
C26_BlankLinesAreTransparent ==
    pc = "done" =>
        /\ Len(parsed_lines) = Len(NonBlankLines)
        /\ \A k \in 1..Len(parsed_lines) :
               /\ parsed_lines[k].raw_line = Strip(NonBlankLines[k])
               /\ parsed_lines[k].raw_line # ""
        /\ \A x \in Records :
               /\ \A n \in 1..TraceLen(x) :
                      /\ absorbs(Classified(headers[x] + 1 + n))
                      /\ exceptions[x].stack_trace[n]
                             = Strip(Classified(headers[x] + 1 + n).message)
                      /\ ~Blank(exceptions[x].stack_trace[n])
               /\ headers[x] + TraceLen(x) + 2 <= Len(NonBlankLines)
                      => ~absorbs(Classified(headers[x] + TraceLen(x) + 2))
               /\ Len(exceptions[x].surrounding_context)
                      = (IF headers[x] < ContextLines THEN headers[x]
                                                      ELSE ContextLines)
               /\ \A n \in 1..Len(exceptions[x].surrounding_context) :
                      /\ exceptions[x].surrounding_context[n]
                             = Strip(NonBlankLines[headers[x] + n
                                   - Len(exceptions[x].surrounding_context)])
                      /\ ~Blank(exceptions[x].surrounding_context[n])

C26_Witness ==
    /\ pc = "done"
    /\ Len(raw_lines) = 16
    /\ Len(NonBlankLines) = 10
    /\ Len(exceptions) = 2
    /\ headers = <<6, 8>>
    /\ exceptions[1].stack_trace
           = <<"at a.B.c(B.java:10)", "Caused by: java.sql.SQLException: no db">>
    /\ Len(exceptions[1].surrounding_context) = 5
    /\ exceptions[1].surrounding_context[1] = PlainLine
    /\ exceptions[2].surrounding_context[5] = "at a.B.c(B.java:10)"

\* the characters p .. e - 1 of s are a class name that ends in Exception
\* (word characters, single dots between them) and character e is a colon
ClassBeforeColon(s, p, e) ==
    /\ p + 10 <= e
    /\ Ch(s, e) = ":"
    /\ SubSeq(s, e - 9, e - 1) = "Exception"
    /\ Ch(s, p) \in Word
    /\ Ch(s, e - 10) \in Word
    /\ \A j \in p..(e - 1) : Ch(s, j) \in Word \cup {"."}
    /\ \A j \in p..(e - 2) : ~(Ch(s, j) = "." /\ Ch(s, j + 1) = ".")

\* at k begins white space that is followed by the word at and white space
DelimitedAt(s, k) ==
    /\ Ch(s, k) \in Space
    /\ \E a \in (k + 1)..Len(s) :
           /\ \A j \in k..(a - 1) : Ch(s, j) \in Space
           /\ Ch(s, a) = "a"
           /\ Ch(s, a + 1) = "t"
           /\ Ch(s, a + 2) \in Space

LeastOf(S) == CHOOSE k \in S : \A j \in S : k <= j

\* C27: when the message of a header holds a class name ending in
\* Exception followed by a colon, exception_type is the first such name and
\* exception_message is the text that follows the colon and its blanks, up
\* to the first white space followed by the word at and white space, or to
\* the end of the message when there is none; when nothing follows the
\* colon, exception_message is the entire message.
C27_MessageCutAtFirstAt ==
    verdict # << >> =>
        LET starts == {p \in 1..Len(probe) :
                          \E e \in 1..Len(probe) :
                              ClassBeforeColon(probe, p, e)}
        IN  starts # {} =>
                LET p == LeastOf(starts)
                    e == LeastOf({k \in p..Len(probe) : Ch(probe, k) = ":"})
                    t == LeastOf({k \in (e + 1)..(Len(probe) + 1) :
                                     Ch(probe, k) \notin Space})
                    c == LeastOf({k \in t..(Len(probe) + 1) :
                                     k = Len(probe) + 1
                                         \/ DelimitedAt(probe, k)})
                IN  /\ verdict[1].exception_type = SubSeq(probe, p, e - 1)
                    /\ verdict[1].exception_message
                           = (IF t > Len(probe) THEN probe
                              ELSE SubSeq(probe, t, c - 1))
                    /\ verdict[1].exception_message # ""

C27_Witness ==
    /\ probe = "Caused by: FooException: look  at this at a.B.c(B.java:10)"
    /\ verdict = << [exception_type    |-> "FooException",
                     exception_message |-> "look"] >>

\* C28: a workflow run in which report_generation has run and that ends
\* without error_message returns workflow_complete = True, and its last
\* message is the supervisor's "Workflow completed successfully!".
C28_CompletedRunIsMarkedComplete ==
    (/\ node = "returned"
     /\ file_exists
     /\ result[1].success
     /\ \E k \in 1..Len(nodes_run) : nodes_run[k] = "report_generation")
    => /\ result[1].workflow_complete = TRUE
       /\ result[1].messages[Len(result[1].messages)]
              = [role    |-> "supervisor",
                 content |-> "Workflow completed successfully!"]

\* error_message of the workflow's state has been set
Failed == state # << >> /\ state[1].error_message # ""

Times(stage) == Cardinality({k \in 1..Len(nodes_run) : nodes_run[k] = stage})

\* once error_message is set, the supervisor is the only node that is still
\* entered, it leads to END, and error_message stays set
ErrorStops ==
    Failed => /\ nodes_run' \in {nodes_run, Append(nodes_run, "supervisor")}
              /\ node = "supervisor" => node' = "END"
              /\ state' = << >> \/ state'[1].error_message # ""

\* C29: every call of SpringBootLogAnalyzer.analyze_log_file returns; no
\* agent stage is entered twice; once log_analysis, code_fixing or
\* report_generation has set error_message the supervisor's decision is
\* "end" and no agent stage is entered any more; and the result has
\* success = True exactly when error_message is empty at the end.
C29_ErrorEndsTheWorkflow ==
    /\ [](node = "entry" => <>(node = "returned"))
    /\ [][ErrorStops]_vars
    /\ [](/\ Times("log_analysis") <= 1
          /\ Times("code_fixing") <= 1
          /\ Times("report_generation") <= 1
          /\ Times("supervisor") <= 3)
    /\ []((Failed /\ node = "supervisor")
              => supervisor_decision(supervisor_node(state[1])) = "end")
    /\ []((node = "returned" /\ file_exists)
              => /\ result[1].success = (state[1].error_message = "")
                 /\ result[1].success = (result[1].error = "")
                 /\ Failed => result[1].success = FALSE)

C29_Witness ==
    /\ node = "returned"
    /\ file_exists
    /\ nodes_run = <<"supervisor", "log_analysis", "supervisor",
                     "code_fixing", "supervisor">>
    /\ result[1].success = FALSE
    /\ result[1].error
           = "Code fixing failed: unsupported operand type(s) for +"
    /\ result[1].total_fixes = 1

\* log_analysis has ended without error and has found no exception
AnalysedWithoutExceptions ==
    /\ state # << >>
    /\ Len(state[1].messages) >= 2
    /\ state[1].messages[2]
           = [role    |-> "log_analyst",
              content |-> "Successfully analyzed log file. Found 0 exceptions."]

====
